---- MODULE Spec2Model ----
(***************************************************************************)
(* A model of the DFU chat participant (src/src/extension.ts): the         *)
(* conversation store keyed by history length, the slash-command handlers, *)
(* the free-text dialogue flow, workspace analysis and code generation.    *)
(*                                                                         *)
(* One action is one chat turn: the participant callback from the store    *)
(* lookup to the end of its try/catch.  What the host supplies in a turn   *)
(* (the prompt text, the workspace on disk, the behaviour of the language  *)
(* model, a cancellation) is chosen with \E from small sets.               *)
(***************************************************************************)
EXTENDS Integers, Sequences, FiniteSets, TLC

VARIABLES
    conversationStates, \* the Map<number, ConversationState>: key -> object id
    heap,               \* object id -> the fields of that ConversationState
    nobjs,              \* number of ConversationState objects created so far
    hist,               \* conversation -> chatContext.history.length
    last,               \* what the most recent turn did (observation only)
    ghost,              \* object id -> the conversation that created it and the
                        \* token of the last integrate turn with a valid token
    inflight,           \* SpecAsync: the turns suspended at an await
    probe,              \* SpecProbe: a workspace and what analyzeWorkspace made of it
    simple              \* SpecPair: object id -> the fields of that state in the
                        \* simple variant (src/unnamed/part_000)

vars == <<conversationStates, heap, nobjs, hist, last, ghost, inflight, probe, simple>>

----------------------------------------------------------------------------
(* Bounds of the model *)

\* Number of turns of the one conversation of Spec.
MaxTurns == 6
\* In SpecStore a turn is taken only while the history length is at most MaxHist.
MaxHist == 4
\* Number of ConversationState objects that can be allocated.
MaxObjs == 3

Convs == {1, 2}
\* history.length grows by the request turn and, when recorded, the response turn
Growth == {1, 2}

Keys == (0 - 1)..(2 * MaxTurns + MaxHist + 2)
ObjIds == 1..MaxObjs
NoObj == 0

----------------------------------------------------------------------------
(* JavaScript values *)

\* the value of an optional field that was never written, of a missing key
Undefined == "<undefined>"
\* inherited properties of an object literal, reached through Object.prototype
FnObject == "<function Object>"
ObjectPrototype == "<Object.prototype>"
FnToString == "<function toString>"

\* String(v) as used when a value is a property key
ToPropertyKey(v) ==
    CASE v = FnObject -> "function Object() { [native code] }"
      [] v = ObjectPrototype -> "[object Object]"
      [] v = FnToString -> "function toString() { [native code] }"
      [] OTHER -> v

\* a property every object literal inherits; Undefined when k names none
Inherited(k) ==
    CASE k = "constructor" -> FnObject
      [] k = "__proto__" -> ObjectPrototype
      [] k = "toString" -> FnToString
      [] OTHER -> Undefined

\* JavaScript truthiness of the values that occur here
Truthy(v) == v # Undefined /\ v # ""

\* String.prototype.trim on the texts of the model
Trim(t) ==
    CASE t = " AUTOSAR " -> "AUTOSAR"
      [] t = " CP-RDB3 " -> "CP-RDB3"
      [] t = " ShmM_MapOwner " -> "ShmM_MapOwner"
      [] t = "   " -> ""
      [] t = " MyFn " -> "MyFn"
      [] OTHER -> t

\* String.prototype.toLowerCase on the (trimmed) texts of the model
ToLower(t) ==
    CASE t = "AUTOSAR" -> "autosar"
      [] t = "MotionWise" -> "motionwise"
      [] t = "CP-RDB3" -> "cp-rdb3"
      [] t = "Constructor" -> "constructor"
      [] t = "__PROTO__" -> "__proto__"
      [] t = "toString" -> "tostring"
      [] t = "ShmM_MapOwner" -> "shmm_mapowner"
      [] t = "MyReader" -> "myreader"
      [] t = "MyFn" -> "myfn"
      [] OTHER -> t

----------------------------------------------------------------------------
(* Configuration catalog *)

MotionWiseConfig ==
    {"cp-rdb2", "cp-rdb3", "sv62", "s324sdv", "ch63_2", "generic", "unknown"}

GenericPath == "1800-EcuIntegration/[PLATFORM]/core/development/dmiu"

\* MOTIONWISE_PATHS without the entry for 'unknown'
MOTIONWISE_PATHSWithoutUnknown(k) ==
    CASE k = "cp-rdb2" ->
            "1800-EcuIntegration/RDB2/1800-ecu-int-rdb2-cp-a/core/development/dmiu"
      [] k = "cp-rdb3" ->
            "1800-EcuIntegration/RDB3/1800-ecu-int-rdb3-cp-a/core/development/dmiu"
      [] k = "sv62" ->
            "1700-Configuration/RDB2/1710-handwritten-config-sv62/core/development/dmiu"
      [] k = "s324sdv" ->
            "1700-Configuration/RDB2/1710-handwritten-config-s324sdv/core/development/dmiu"
      [] k = "ch63_2" ->
            "configs/projects/CH63_2/deployments/1710-handwritten-config-ch63_2/core/development/dmiu"
      [] k = "generic" -> GenericPath
      [] OTHER -> Inherited(ToPropertyKey(k))

\* MOTIONWISE_PATHS[k], with the prototype chain of the object literal
MOTIONWISE_PATHS(k) ==
    CASE k = "cp-rdb2" ->
            "1800-EcuIntegration/RDB2/1800-ecu-int-rdb2-cp-a/core/development/dmiu"
      [] k = "cp-rdb3" ->
            "1800-EcuIntegration/RDB3/1800-ecu-int-rdb3-cp-a/core/development/dmiu"
      [] k = "sv62" ->
            "1700-Configuration/RDB2/1710-handwritten-config-sv62/core/development/dmiu"
      [] k = "s324sdv" ->
            "1700-Configuration/RDB2/1710-handwritten-config-s324sdv/core/development/dmiu"
      [] k = "ch63_2" ->
            "configs/projects/CH63_2/deployments/1710-handwritten-config-ch63_2/core/development/dmiu"
      [] k = "generic" -> GenericPath
      [] k = "unknown" -> GenericPath
      [] OTHER -> Inherited(ToPropertyKey(k))

\* configMap[k] of handleConversationFlow, with its prototype chain
configMap(k) ==
    CASE k = "1" -> "cp-rdb2"
      [] k = "2" -> "cp-rdb3"
      [] k = "3" -> "sv62"
      [] k = "4" -> "s324sdv"
      [] k = "5" -> "ch63_2"
      [] k = "6" -> "generic"
      [] OTHER -> Inherited(k)

----------------------------------------------------------------------------
(* Workspace analysis *)

\* A file on disk: whether readFile succeeds, and the identifiers in its text.
\* A workspace: what each findFiles pattern finds, in the order it is returned.
Min(a, b) == IF a <= b THEN a ELSE b

\* text.includes(marker): marker is a substring of some identifier of the text
IsSubstring(marker, word) ==
    \/ marker = word
    \/ marker = "ShmM" /\ word = "ShmM_MapOwner"
    \/ marker = "Per_DS_Read" /\ word = "Per_DS_ReadDSElementDMIU"

Includes(text, marker) == \E word \in text : IsSubstring(marker, word)

\* array.includes(x)
SeqIncludes(q, x) == \E i \in 1..Len(q) : q[i] = x

\* vscode.workspace.findFiles(pattern, exclude, maxResults)
FindFiles(found, maxResults) == SubSeq(found, 1, Min(Len(found), maxResults))

IntegrationFilesMax == 10
ConfigFilesMax == 1
PosixFilesMax == 5
HeaderFilesMax == 100
HeaderScanMax == 50

configPatterns ==
    << [pattern |-> "**/1800-ecu-int-rdb2-cp-a/**", config |-> "cp-rdb2"],
       [pattern |-> "**/1800-ecu-int-rdb3-cp-a/**", config |-> "cp-rdb3"],
       [pattern |-> "**/1710-handwritten-config-sv62/**", config |-> "sv62"],
       [pattern |-> "**/1710-handwritten-config-s324sdv/**", config |-> "s324sdv"],
       [pattern |-> "**/1710-handwritten-config-ch63_2/**", config |-> "ch63_2"] >>

\* the loop over configPatterns without the break: the last pattern that finds a file
DetectConfigLastMatch(ws, i) ==
    LET hits == {j \in i..Len(configPatterns) :
                    Len(FindFiles(ws.byPattern[configPatterns[j].pattern], ConfigFilesMax)) > 0}
    IN  IF hits = {} THEN Undefined
        ELSE configPatterns[CHOOSE j \in hits : \A k \in hits : k <= j].config

\* the loop over configPatterns from entry i on: the first pattern that finds a file
RECURSIVE DetectConfig(_, _)
DetectConfig(ws, i) ==
    IF i > Len(configPatterns) THEN Undefined
    ELSE IF Len(FindFiles(ws.byPattern[configPatterns[i].pattern], ConfigFilesMax)) > 0
         THEN configPatterns[i].config
         ELSE DetectConfig(ws, i + 1)

\* the findFiles calls that the loop over configPatterns makes from entry i on
RECURSIVE ConfigSearches(_, _)
ConfigSearches(ws, i) ==
    IF i > Len(configPatterns) THEN 0
    ELSE IF Len(FindFiles(ws.byPattern[configPatterns[i].pattern], ConfigFilesMax)) > 0
         THEN 1
         ELSE 1 + ConfigSearches(ws, i + 1)

\* headerFiles.slice(0, 50) of the files that findFiles('**/*.h', ..., 100) returns
ScannedHeaders(ws) ==
    LET headerFiles == FindFiles(ws.headers, HeaderFilesMax)
    IN  SubSeq(headerFiles, 1, Min(Len(headerFiles), HeaderScanMax))

Threw == "<threw>"

\* the loop over posixFiles from file i on: Threw when a readFile rejects
RECURSIVE ScanPosixFiles(_, _)
ScanPosixFiles(files, i) ==
    IF i > Len(files) THEN Undefined
    ELSE IF ~files[i].readable THEN Threw
    ELSE IF Includes(files[i].text, "PFSW_BUILD_OS_POSIX") \/ Includes(files[i].text, "ShmM")
         THEN "posix"
         ELSE ScanPosixFiles(files, i + 1)

\* the loop over the scanned header files from file i on
RECURSIVE ScanHeaders(_, _, _)
ScanHeaders(files, i, acc) ==
    IF i > Len(files) THEN acc
    ELSE IF ~files[i].readable THEN [acc EXCEPT !.threw = TRUE]
    ELSE LET m == IF Includes(files[i].text, "ShmM_MapOwner")
                      /\ ~SeqIncludes(acc.memoryFunctions, "ShmM_MapOwner")
                   THEN Append(acc.memoryFunctions, "ShmM_MapOwner")
                   ELSE acc.memoryFunctions
             d == IF Includes(files[i].text, "Per_DS_Read")
                      /\ ~SeqIncludes(acc.datasetFunctions, "Per_DS_ReadDSElementDMIU")
                   THEN Append(acc.datasetFunctions, "Per_DS_ReadDSElementDMIU")
                   ELSE acc.datasetFunctions
         IN ScanHeaders(files, i + 1,
                [acc EXCEPT !.memoryFunctions = m, !.datasetFunctions = d])

\* analyzeWorkspace(): the result, or threw = TRUE when a readFile rejected
\* (the function has no try/catch, so the rejection leaves it)
analyzeWorkspace(ws) ==
    LET integrationFiles == FindFiles(ws.integration, IntegrationFilesMax)
        detected == DetectConfig(ws, 1)
        posixFiles == FindFiles(ws.mainFiles, PosixFilesMax)
        platform == ScanPosixFiles(posixFiles, 1)
        headerFiles == FindFiles(ws.headers, HeaderFilesMax)
        scanned == SubSeq(headerFiles, 1, Min(Len(headerFiles), HeaderScanMax))
        fns == IF platform = Threw
               THEN [memoryFunctions |-> <<>>, datasetFunctions |-> <<>>, threw |-> TRUE]
               ELSE ScanHeaders(scanned, 1,
                        [memoryFunctions |-> <<>>, datasetFunctions |-> <<>>,
                         threw |-> FALSE])
    IN  [threw |-> fns.threw,
         detectedPlatform |-> IF platform = Threw THEN Undefined ELSE platform,
         detectedMotionWiseConfig |-> detected,
         memoryFunctions |-> fns.memoryFunctions,
         datasetFunctions |-> fns.datasetFunctions,
         existingIntegrationFiles |-> integrationFiles]

\* part_000: analyzeWorkspace(), which has no search for a configuration
analyzeWorkspaceSimple(ws) ==
    LET integrationFiles == FindFiles(ws.integration, IntegrationFilesMax)
        posixFiles == FindFiles(ws.mainFiles, PosixFilesMax)
        platform == ScanPosixFiles(posixFiles, 1)
        headerFiles == FindFiles(ws.headers, HeaderFilesMax)
        scanned == SubSeq(headerFiles, 1, Min(Len(headerFiles), HeaderScanMax))
        fns == IF platform = Threw
               THEN [memoryFunctions |-> <<>>, datasetFunctions |-> <<>>, threw |-> TRUE]
               ELSE ScanHeaders(scanned, 1,
                        [memoryFunctions |-> <<>>, datasetFunctions |-> <<>>,
                         threw |-> FALSE])
    IN  [threw |-> fns.threw,
         detectedPlatform |-> IF platform = Threw THEN Undefined ELSE platform,
         memoryFunctions |-> fns.memoryFunctions,
         datasetFunctions |-> fns.datasetFunctions,
         existingIntegrationFiles |-> integrationFiles]

\* Workspaces of the model
File(readable, text) == [readable |-> readable, text |-> text]

NoDirs == [p \in {configPatterns[i].pattern : i \in 1..Len(configPatterns)} |-> <<>>]

EmptyWorkspace ==
    [integration |-> <<>>, byPattern |-> NoDirs, mainFiles |-> <<>>, headers |-> <<>>]

PosixWorkspace ==
    [integration |-> <<"1800-EcuIntegration/X/core/development/dmiu/src/main.c">>,
     byPattern |-> NoDirs,
     mainFiles |-> <<File(TRUE, {"ShmM_MapOwner"})>>,
     headers |-> <<File(TRUE, {"ShmM_MapOwner"}),
                   File(TRUE, {"ShmM_MapOwner", "Per_DS_ReadDSElementDMIU"})>>]

MotionWiseWorkspace ==
    [integration |-> <<>>,
     byPattern |-> [NoDirs EXCEPT
                     !["**/1800-ecu-int-rdb3-cp-a/**"] = <<"1800-ecu-int-rdb3-cp-a/a.c">>,
                     !["**/1710-handwritten-config-sv62/**"] = <<"1710-handwritten-config-sv62/b.c">>],
     mainFiles |-> <<File(TRUE, {"main"})>>,
     headers |-> <<File(TRUE, {"Per_DS_Read"})>>]

UnreadableWorkspace ==
    [integration |-> <<>>,
     byPattern |-> [NoDirs EXCEPT
                     !["**/1710-handwritten-config-ch63_2/**"] = <<"1710-handwritten-config-ch63_2/c.c">>],
     mainFiles |-> <<>>,
     headers |-> <<File(TRUE, {"ShmM_MapOwner"}), File(FALSE, {"Per_DS_Read"})>>]

Workspaces == {EmptyWorkspace, PosixWorkspace, MotionWiseWorkspace, UnreadableWorkspace}

\* Workspaces of SpecProbe: every choice of the configuration directories
\* present, with or without a main.c, and n header files of which those at
\* the positions mem and ds hold the markers and the one at bad cannot be read
Dirs(present) ==
    [p \in DOMAIN NoDirs |-> IF p \in present THEN <<p>> ELSE <<>>]

Headers(n, mem, ds, bad) ==
    [i \in 1..n |-> File(i # bad, (IF i \in mem THEN {"ShmM_MapOwner"} ELSE {})
                                  \cup (IF i \in ds THEN {"Per_DS_Read"} ELSE {}))]

HeaderCases ==
    { Headers(n, mem, ds, bad) :
        n \in {0, 2, HeaderScanMax, HeaderScanMax + 1, HeaderFilesMax + 1},
        mem \in {{}, {1, 2}, {HeaderScanMax + 1}},
        ds \in {{}, {HeaderScanMax}},
        bad \in {0, 2} }

ProbeWorkspaces ==
    { [integration |-> <<>>, byPattern |-> Dirs(present), mainFiles |-> main,
       headers |-> headers] :
        present \in SUBSET DOMAIN NoDirs,
        main \in {<<>>, <<File(TRUE, {"ShmM"})>>},
        headers \in HeaderCases }

----------------------------------------------------------------------------
(* Conversation state and what a handler leaves behind *)

\* state = { step: 'initial' }
InitialState ==
    [step |-> "initial", platform |-> Undefined, motionwiseConfig |-> Undefined,
     integrationPath |-> Undefined, memoryFunction |-> Undefined,
     datasetFunction |-> Undefined, alternativeFunction |-> Undefined]

\* no call of generateIntegrationCode in the turn
NoGen ==
    [called |-> FALSE, platform |-> Undefined, memory |-> Undefined,
     dataset |-> Undefined, alternative |-> Undefined, mainC |-> FALSE]

\* How a handler ends: the state object as it left it (writes made before a throw
\* stay), the markdown written to the stream, whether it threw, whether it ran
\* analyzeWorkspace ("none", "ok", "threw"), the configuration it handed to
\* generateIntegrationCode, whether a request went to the language model, and
\* what selectChatModels returned ("none" when not called, "selected", "empty"),
\* the chunks that the response of the language model holds, and the
\* configuration that the workspace of an integrate turn lets detect.
Result(state, out, thrown) ==
    [state |-> state, out |-> out, thrown |-> thrown, probe |-> "none",
     gen |-> NoGen, sent |-> FALSE, models |-> "none", chunks |-> <<>>,
     detected |-> Undefined]

----------------------------------------------------------------------------
(* Code generation *)

\* buildCodeGenerationPrompt(state): the fields of the state the prompt is built from
buildCodeGenerationPrompt(state) ==
    [called |-> TRUE, platform |-> state.platform, memory |-> state.memoryFunction,
     dataset |-> state.datasetFunction, alternative |-> state.alternativeFunction,
     mainC |-> state.platform = "posix"]

\* The language model as met by one call: whether selectChatModels returns a model,
\* whether sendRequest rejects ("request") or the iteration over response.text
\* throws after failAfter chunks ("stream"), the chunks of the response, and
\* whether the failure is the host's cancellation of the token.
Oracle(available, fails, chunks, failAfter, cancelled) ==
    [available |-> available, fails |-> fails, chunks |-> chunks,
     failAfter |-> failAfter, cancelled |-> cancelled]

Oracles ==
    { Oracle(TRUE, "no", <<"chunk1", "chunk2">>, 0, FALSE),
      Oracle(TRUE, "no", <<"chunk2", "chunk1", "chunk2">>, 0, FALSE),
      Oracle(FALSE, "no", <<>>, 0, FALSE),
      Oracle(TRUE, "request", <<>>, 0, FALSE),
      Oracle(TRUE, "stream", <<"chunk1", "chunk2">>, 1, FALSE),
      Oracle(TRUE, "request", <<>>, 0, TRUE),
      Oracle(TRUE, "stream", <<"chunk1", "chunk2">>, 1, TRUE) }

\* generateIntegrationCode without the test for an empty list of models: the
\* request goes to models[0], which is undefined, and the call throws
generateIntegrationCodeNoModelTest(state, oracle) ==
    IF ~oracle.available
    THEN [out |-> <<>>, thrown |-> TRUE, sent |-> FALSE, models |-> "empty"]
    ELSE IF oracle.fails = "request"
    THEN [out |-> <<>>, thrown |-> TRUE, sent |-> TRUE, models |-> "selected"]
    ELSE IF oracle.fails = "stream"
    THEN [out |-> SubSeq(oracle.chunks, 1, Min(oracle.failAfter, Len(oracle.chunks))),
          thrown |-> TRUE, sent |-> TRUE, models |-> "selected"]
    ELSE [out |-> oracle.chunks, thrown |-> FALSE, sent |-> TRUE, models |-> "selected"]

\* generateIntegrationCode that starts to write at the second chunk
generateIntegrationCodeDropsFirstChunk(state, oracle) ==
    IF ~oracle.available
    THEN [out |-> <<"lm_not_available", "config_summary">>, thrown |-> FALSE,
          sent |-> FALSE, models |-> "empty"]
    ELSE IF oracle.fails = "request"
    THEN [out |-> <<>>, thrown |-> TRUE, sent |-> TRUE, models |-> "selected"]
    ELSE IF oracle.fails = "stream"
    THEN [out |-> SubSeq(oracle.chunks, 2, Min(oracle.failAfter, Len(oracle.chunks))),
          thrown |-> TRUE, sent |-> TRUE, models |-> "selected"]
    ELSE [out |-> SubSeq(oracle.chunks, 2, Len(oracle.chunks)), thrown |-> FALSE,
          sent |-> TRUE, models |-> "selected"]

\* generateIntegrationCode(state, stream, token): [out, thrown, sent, models]
generateIntegrationCode(state, oracle) ==
    IF ~oracle.available
    THEN [out |-> <<"lm_not_available", "config_summary">>, thrown |-> FALSE,
          sent |-> FALSE, models |-> "empty"]
    ELSE IF oracle.fails = "request"
    THEN [out |-> <<>>, thrown |-> TRUE, sent |-> TRUE, models |-> "selected"]
    ELSE IF oracle.fails = "stream"
    THEN [out |-> SubSeq(oracle.chunks, 1, Min(oracle.failAfter, Len(oracle.chunks))),
          thrown |-> TRUE, sent |-> TRUE, models |-> "selected"]
    ELSE [out |-> oracle.chunks, thrown |-> FALSE, sent |-> TRUE, models |-> "selected"]

----------------------------------------------------------------------------
(* Command handlers *)

\* handleIntegrateCommand that starts a dialogue only from step 'initial'
handleIntegrateCommandOnlyFromInitial(state, prompt, ws) ==
    LET input == ToLower(Trim(prompt)) IN
    IF (input # "posix" /\ input # "autosar" /\ input # "motionwise")
       \/ state.step # "initial"
    THEN Result(state, <<"specify_platform">>, FALSE)
    ELSE
    LET s1 == [state EXCEPT !.platform =
                   IF input = "posix" \/ input = "autosar" THEN input ELSE "posix"]
        analysis == analyzeWorkspace(ws)
        detected == analysis.detectedMotionWiseConfig
    IN  IF analysis.threw
        THEN [Result(s1, <<>>, TRUE) EXCEPT !.probe = "threw"]
        ELSE IF input = "motionwise"
        THEN IF detected # Undefined /\ detected # "unknown"
             THEN [Result([s1 EXCEPT !.motionwiseConfig = detected,
                                     !.integrationPath = MOTIONWISE_PATHS(detected),
                                     !.step = "memory"],
                          <<"starting", "motionwise_context", "detected_configuration">>,
                          FALSE)
                     EXCEPT !.probe = "ok"]
             ELSE [Result([s1 EXCEPT !.step = "config"],
                          <<"starting", "motionwise_context", "which_configuration">>,
                          FALSE)
                     EXCEPT !.probe = "ok"]
        ELSE [Result([s1 EXCEPT !.step = "memory", !.integrationPath = GenericPath],
                     <<"starting">>, FALSE)
                EXCEPT !.probe = "ok"]

\* handleIntegrateCommand that lets the platform detected in the workspace
\* take the place of the platform of the token
handleIntegrateCommandTakesDetectedPlatform(state, prompt, ws) ==
    LET input == ToLower(Trim(prompt)) IN
    IF input # "posix" /\ input # "autosar" /\ input # "motionwise"
    THEN Result(state, <<"specify_platform">>, FALSE)
    ELSE
    LET analysis == analyzeWorkspace(ws)
        detected == analysis.detectedMotionWiseConfig
        s0 == [state EXCEPT !.platform =
                   IF input = "posix" \/ input = "autosar" THEN input ELSE "posix"]
        s1 == IF analysis.detectedPlatform # Undefined
              THEN [s0 EXCEPT !.platform = analysis.detectedPlatform]
              ELSE s0
    IN  IF analysis.threw
        THEN [Result(s0, <<>>, TRUE) EXCEPT !.probe = "threw"]
        ELSE IF input = "motionwise"
        THEN IF detected # Undefined /\ detected # "unknown"
             THEN [Result([s1 EXCEPT !.motionwiseConfig = detected,
                                     !.integrationPath = MOTIONWISE_PATHS(detected),
                                     !.step = "memory"],
                          <<"starting", "motionwise_context", "detected_configuration">>,
                          FALSE)
                     EXCEPT !.probe = "ok"]
             ELSE [Result([s1 EXCEPT !.step = "config"],
                          <<"starting", "motionwise_context", "which_configuration">>,
                          FALSE)
                     EXCEPT !.probe = "ok"]
        ELSE [Result([s1 EXCEPT !.step = "memory", !.integrationPath = GenericPath],
                     <<"starting">>, FALSE)
                EXCEPT !.probe = "ok"]

\* handleIntegrateCommand(request, stream, state, token); ws is the workspace
\* that analyzeWorkspace meets while the handler is suspended
handleIntegrateCommand(state, prompt, ws) ==
    LET input == ToLower(Trim(prompt)) IN
    IF input # "posix" /\ input # "autosar" /\ input # "motionwise"
    THEN Result(state, <<"specify_platform">>, FALSE)
    ELSE
    LET s1 == [state EXCEPT !.platform =
                   IF input = "posix" \/ input = "autosar" THEN input ELSE "posix"]
        analysis == analyzeWorkspace(ws)
        detected == analysis.detectedMotionWiseConfig
        files == <<"files_to_create">>
                 \o (IF s1.platform = "posix" THEN <<"main.c">> ELSE <<>>)
        step1 == <<"step1_memory_allocation">>
                 \o (IF Len(analysis.memoryFunctions) > 0
                     THEN <<"found_in_workspace">> ELSE <<>>)
                 \o (IF s1.platform = "posix" THEN <<"option_ShmM_MapOwner">> ELSE <<>>)
                 \o <<"reply_with_choice">>
    IN  IF analysis.threw
        THEN [Result(s1, <<>>, TRUE) EXCEPT !.probe = "threw"]
        ELSE IF input = "motionwise"
        THEN IF detected # Undefined /\ detected # "unknown"
             THEN [Result([s1 EXCEPT !.motionwiseConfig = detected,
                                     !.integrationPath = MOTIONWISE_PATHS(detected),
                                     !.step = "memory"],
                          <<"starting", "motionwise_context", "detected_configuration">>
                              \o files \o step1, FALSE)
                     EXCEPT !.probe = "ok"]
             ELSE [Result([s1 EXCEPT !.step = "config"],
                          <<"starting", "motionwise_context", "which_configuration">>,
                          FALSE)
                     EXCEPT !.probe = "ok"]
        ELSE [Result([s1 EXCEPT !.step = "memory", !.integrationPath = GenericPath],
                     <<"starting">> \o files \o step1, FALSE)
                EXCEPT !.probe = "ok"]

\* handleValidateCommand that puts the dialogue back to its start
handleValidateCommandResetsStep(state, ws) ==
    LET analysis == analyzeWorkspace(ws)
        s1 == [state EXCEPT !.step = "initial"]
    IN  IF analysis.threw
        THEN [Result(s1, <<>>, TRUE) EXCEPT !.probe = "threw"]
        ELSE IF Len(analysis.existingIntegrationFiles) = 0
        THEN [Result(s1, <<"validation", "no_integration_files", "run_integrate">>, FALSE)
                EXCEPT !.probe = "ok"]
        ELSE [Result(s1, <<"validation", "found_integration_files">>, FALSE)
                EXCEPT !.probe = "ok"]

\* handleValidateCommand(stream, token)
handleValidateCommand(state, ws) ==
    LET analysis == analyzeWorkspace(ws) IN
    IF analysis.threw
    THEN [Result(state, <<>>, TRUE) EXCEPT !.probe = "threw"]
    ELSE IF Len(analysis.existingIntegrationFiles) = 0
    THEN [Result(state, <<"validation", "no_integration_files", "run_integrate">>, FALSE)
            EXCEPT !.probe = "ok"]
    ELSE [Result(state, <<"validation", "found_integration_files">>, FALSE)
            EXCEPT !.probe = "ok"]

\* handleAdapterCommand(request, stream, token)
handleAdapterCommand(state, prompt) ==
    LET functionName == Trim(prompt) IN
    IF ~Truthy(functionName)
    THEN Result(state, <<"provide_function_name">>, FALSE)
    ELSE Result(state, <<"generating_adapter", "what_does_it_return">>, FALSE)

\* SelectConfig with an accepted selection moving on past the memory question
SelectConfigSkipsMemory(state, userMessage) ==
    LET selectedConfig == IF Truthy(configMap(userMessage))
                          THEN configMap(userMessage)
                          ELSE ToLower(userMessage)
    IN  IF Truthy(selectedConfig) /\ Truthy(MOTIONWISE_PATHS(selectedConfig))
        THEN Result([state EXCEPT !.motionwiseConfig = selectedConfig,
                                  !.integrationPath = MOTIONWISE_PATHS(selectedConfig),
                                  !.step = "dataset"],
                    <<"configuration", "integration_path", "step1_memory_management">>,
                    FALSE)
        ELSE Result(state, <<"invalid_configuration">>, FALSE)

\* SelectConfig with the selection recorded before it is validated
SelectConfigRecordsFirst(state, userMessage) ==
    LET selectedConfig == IF Truthy(configMap(userMessage))
                          THEN configMap(userMessage)
                          ELSE ToLower(userMessage)
        s1 == [state EXCEPT !.motionwiseConfig = selectedConfig]
    IN  IF Truthy(selectedConfig) /\ Truthy(MOTIONWISE_PATHS(selectedConfig))
        THEN Result([s1 EXCEPT !.integrationPath = MOTIONWISE_PATHS(selectedConfig),
                               !.step = "memory"],
                    <<"configuration", "integration_path", "step1_memory_management">>,
                    FALSE)
        ELSE Result(s1, <<"invalid_configuration">>, FALSE)

\* the branch of handleConversationFlow for state.step === 'config'
SelectConfig(state, userMessage) ==
    LET selectedConfig == IF Truthy(configMap(userMessage))
                          THEN configMap(userMessage)
                          ELSE ToLower(userMessage)
    IN  IF Truthy(selectedConfig) /\ Truthy(MOTIONWISE_PATHS(selectedConfig))
        THEN Result([state EXCEPT !.motionwiseConfig = selectedConfig,
                                  !.integrationPath = MOTIONWISE_PATHS(selectedConfig),
                                  !.step = "memory"],
                    <<"configuration", "integration_path", "step1_memory_management">>,
                    FALSE)
        ELSE Result(state, <<"invalid_configuration">>, FALSE)

\* CaptureAlternative that drops the platform when the generation is done
CaptureAlternativeClearsPlatform(state, userMessage, oracle) ==
    LET s1 == [state EXCEPT !.alternativeFunction = userMessage, !.step = "complete"]
        g == generateIntegrationCode(s1, oracle)
        head == <<"alternative_echo", "generating">> \o g.out
    IN  IF g.thrown
        THEN [Result(s1, head, TRUE)
                EXCEPT !.gen = buildCodeGenerationPrompt(s1), !.sent = g.sent,
                       !.models = g.models,
                       !.chunks = IF g.sent THEN oracle.chunks ELSE <<>>]
        ELSE [Result([s1 EXCEPT !.step = "initial", !.platform = Undefined],
                     head \o <<"integration_complete">>, FALSE)
                EXCEPT !.gen = buildCodeGenerationPrompt(s1), !.sent = g.sent,
                       !.models = g.models,
                       !.chunks = IF g.sent THEN oracle.chunks ELSE <<>>]

\* the branch of handleConversationFlow for state.step === 'alternative'
CaptureAlternative(state, userMessage, oracle) ==
    LET s1 == [state EXCEPT !.alternativeFunction = userMessage, !.step = "complete"]
        g == generateIntegrationCode(s1, oracle)
        head == <<"alternative_echo", "generating">> \o g.out
    IN  IF g.thrown
        THEN [Result(s1, head, TRUE)
                EXCEPT !.gen = buildCodeGenerationPrompt(s1), !.sent = g.sent,
                       !.models = g.models,
                       !.chunks = IF g.sent THEN oracle.chunks ELSE <<>>]
        ELSE [Result([s1 EXCEPT !.step = "initial"],
                     head \o <<"integration_complete">>, FALSE)
                EXCEPT !.gen = buildCodeGenerationPrompt(s1), !.sent = g.sent,
                       !.models = g.models,
                       !.chunks = IF g.sent THEN oracle.chunks ELSE <<>>]

\* handleConversationFlow with the dataset answer written to the memory field
handleConversationFlowWrongField(state, prompt, oracle) ==
    LET userMessage == Trim(prompt) IN
    IF state.step = "initial"
    THEN Result(state, <<"dfu_knowledge", "get_started">>, FALSE)
    ELSE IF state.step = "config"
    THEN SelectConfig(state, userMessage)
    ELSE IF state.step = "memory"
    THEN Result([state EXCEPT !.memoryFunction = userMessage, !.step = "dataset"],
                <<"memory_echo", "step2_dataset_loading">>, FALSE)
    ELSE IF state.step = "dataset"
    THEN Result([state EXCEPT !.memoryFunction = userMessage, !.step = "alternative"],
                <<"dataset_echo", "step3_alternative_load">>, FALSE)
    ELSE IF state.step = "alternative"
    THEN CaptureAlternative(state, userMessage, oracle)
    ELSE Result(state, <<>>, FALSE)

\* handleConversationFlow with the captured names put to lower case
handleConversationFlowLowercases(state, prompt, oracle) ==
    LET userMessage == Trim(prompt) IN
    IF state.step = "initial"
    THEN Result(state, <<"dfu_knowledge", "get_started">>, FALSE)
    ELSE IF state.step = "config"
    THEN SelectConfig(state, userMessage)
    ELSE IF state.step = "memory"
    THEN Result([state EXCEPT !.memoryFunction = ToLower(userMessage), !.step = "dataset"],
                <<"memory_echo", "step2_dataset_loading">>, FALSE)
    ELSE IF state.step = "dataset"
    THEN Result([state EXCEPT !.datasetFunction = ToLower(userMessage), !.step = "alternative"],
                <<"dataset_echo", "step3_alternative_load">>, FALSE)
    ELSE IF state.step = "alternative"
    THEN CaptureAlternative(state, userMessage, oracle)
    ELSE Result(state, <<>>, FALSE)

\* handleConversationFlow with an empty answer to a capture question asked again
handleConversationFlowRejectsEmpty(state, prompt, oracle) ==
    LET userMessage == Trim(prompt) IN
    IF state.step = "initial"
    THEN Result(state, <<"dfu_knowledge", "get_started">>, FALSE)
    ELSE IF state.step = "config"
    THEN SelectConfig(state, userMessage)
    ELSE IF state.step \in {"memory", "dataset"} /\ userMessage = ""
    THEN Result(state, <<"provide_function_name">>, FALSE)
    ELSE IF state.step = "memory"
    THEN Result([state EXCEPT !.memoryFunction = userMessage, !.step = "dataset"],
                <<"memory_echo", "step2_dataset_loading">>, FALSE)
    ELSE IF state.step = "dataset"
    THEN Result([state EXCEPT !.datasetFunction = userMessage, !.step = "alternative"],
                <<"dataset_echo", "step3_alternative_load">>, FALSE)
    ELSE IF state.step = "alternative"
    THEN CaptureAlternative(state, userMessage, oracle)
    ELSE Result(state, <<>>, FALSE)

\* handleConversationFlow(request, chatContext, stream, state, token)
handleConversationFlow(state, prompt, oracle) ==
    LET userMessage == Trim(prompt) IN
    IF state.step = "initial"
    THEN Result(state, <<"dfu_knowledge", "get_started">>, FALSE)
    ELSE IF state.step = "config"
    THEN SelectConfig(state, userMessage)
    ELSE IF state.step = "memory"
    THEN Result([state EXCEPT !.memoryFunction = userMessage, !.step = "dataset"],
                <<"memory_echo", "step2_dataset_loading">>, FALSE)
    ELSE IF state.step = "dataset"
    THEN Result([state EXCEPT !.datasetFunction = userMessage, !.step = "alternative"],
                <<"dataset_echo", "step3_alternative_load">>, FALSE)
    ELSE IF state.step = "alternative"
    THEN CaptureAlternative(state, userMessage, oracle)
    ELSE Result(state, <<>>, FALSE)

----------------------------------------------------------------------------
(* The handlers of part_000, the extension without configurations *)

\* part_000: handleIntegrateCommand(request, stream, state, token); platform and
\* step are written before the await of analyzeWorkspace
handleIntegrateCommandSimple(state, prompt, ws) ==
    LET platform == ToLower(Trim(prompt)) IN
    IF platform # "posix" /\ platform # "autosar"
    THEN Result(state, <<"specify_platform">>, FALSE)
    ELSE
    LET s1 == [state EXCEPT !.platform = platform, !.step = "memory"]
        analysis == analyzeWorkspaceSimple(ws)
        files == <<"files_to_create">>
                 \o (IF platform = "posix" THEN <<"main.c">> ELSE <<>>)
        step1 == <<"step1_memory_allocation">>
                 \o (IF Len(analysis.memoryFunctions) > 0
                     THEN <<"found_in_workspace">> ELSE <<>>)
                 \o (IF platform = "posix" THEN <<"option_ShmM_MapOwner">> ELSE <<>>)
                 \o <<"reply_with_choice">>
    IN  IF analysis.threw
        THEN [Result(s1, <<>>, TRUE) EXCEPT !.probe = "threw"]
        ELSE [Result(s1, <<"starting">>
                         \o (IF Truthy(analysis.detectedPlatform)
                             THEN <<"detected_platform">> ELSE <<>>)
                         \o files \o step1, FALSE)
                EXCEPT !.probe = "ok"]

\* part_000: handleValidateCommand(stream, token)
handleValidateCommandSimple(state, ws) ==
    LET analysis == analyzeWorkspaceSimple(ws) IN
    IF analysis.threw
    THEN [Result(state, <<>>, TRUE) EXCEPT !.probe = "threw"]
    ELSE IF Len(analysis.existingIntegrationFiles) = 0
    THEN [Result(state, <<"validation", "no_integration_files", "run_integrate">>, FALSE)
            EXCEPT !.probe = "ok"]
    ELSE [Result(state, <<"validation", "found_integration_files">>, FALSE)
            EXCEPT !.probe = "ok"]

\* part_000: handleAdapterCommand(request, stream, token)
handleAdapterCommandSimple(state, prompt) ==
    LET functionName == Trim(prompt) IN
    IF ~Truthy(functionName)
    THEN Result(state, <<"provide_function_name">>, FALSE)
    ELSE Result(state, <<"generating_adapter", "what_does_it_return">>, FALSE)

\* part_000: handleConversationFlow(request, chatContext, stream, state, token);
\* generateIntegrationCode and buildCodeGenerationPrompt of part_000 are those
\* of extension.ts line for line
handleConversationFlowSimple(state, prompt, oracle) ==
    LET userMessage == Trim(prompt) IN
    IF state.step = "initial"
    THEN Result(state, <<"dfu_knowledge", "get_started">>, FALSE)
    ELSE IF state.step = "memory"
    THEN Result([state EXCEPT !.memoryFunction = userMessage, !.step = "dataset"],
                <<"memory_echo", "step2_dataset_loading">>, FALSE)
    ELSE IF state.step = "dataset"
    THEN Result([state EXCEPT !.datasetFunction = userMessage, !.step = "alternative"],
                <<"dataset_echo", "step3_alternative_load">>, FALSE)
    ELSE IF state.step = "alternative"
    THEN LET s1 == [state EXCEPT !.alternativeFunction = userMessage,
                                 !.step = "complete"]
             g == generateIntegrationCode(s1, oracle)
             head == <<"alternative_echo", "generating">> \o g.out
         IN  IF g.thrown
             THEN [Result(s1, head, TRUE)
                     EXCEPT !.gen = buildCodeGenerationPrompt(s1), !.sent = g.sent,
                            !.models = g.models]
             ELSE [Result([s1 EXCEPT !.step = "initial"],
                          head \o <<"integration_complete">>, FALSE)
                     EXCEPT !.gen = buildCodeGenerationPrompt(s1), !.sent = g.sent,
                            !.models = g.models]
    ELSE Result(state, <<>>, FALSE)

----------------------------------------------------------------------------
(* The participant callback *)

\* Lookup with the predecessor key tried first
LookupPredecessorFirst(m, sessionKey) ==
    IF m[sessionKey - 1] # NoObj THEN m[sessionKey - 1] ELSE m[sessionKey]

\* Lookup with the key after sessionKey as the fallback
LookupSuccessor(m, sessionKey) ==
    IF m[sessionKey] # NoObj THEN m[sessionKey] ELSE m[sessionKey + 1]

\* conversationStates.get(sessionKey) || conversationStates.get(sessionKey - 1)
Lookup(m, sessionKey) ==
    IF m[sessionKey] # NoObj THEN m[sessionKey] ELSE m[sessionKey - 1]

\* Register under the key of the turn itself
RegisterUnderSessionKey(m, sessionKey, o) == [m EXCEPT ![sessionKey] = o]

\* conversationStates.set(sessionKey + 1, state)
Register(m, sessionKey, o) == [m EXCEPT ![sessionKey + 1] = o]

\* the object the turn of conversation c works on: the one found in the store,
\* or a new one (if (!state) state = { step: 'initial' })
StateFor(c) ==
    LET found == Lookup(conversationStates, hist[c])
    IN  IF found = NoObj THEN nobjs + 1 ELSE found

\* TurnHandler without the catch: what the handler throws leaves the callback
TurnHandlerWithoutCatch(r) ==
    IF r.thrown
    THEN [state |-> r.state, out |-> r.out, outcome |-> "escaped"]
    ELSE [state |-> r.state, out |-> r.out, outcome |-> "ok"]

\* try { await handler } catch (error) { stream.markdown(error line) }:
\* how the callback ends for a handler that ended as r
TurnHandler(r) ==
    IF r.thrown
    THEN [state |-> r.state, out |-> Append(r.out, "error_line"), outcome |-> "caught"]
    ELSE [state |-> r.state, out |-> r.out, outcome |-> "ok"]

\* One turn of conversation c: the store lookup and registration, the handler
\* (ended as r on object o), the catch, and the growth g of the history.
Turn(c, maxHist, g, cmd, prompt, cancelled, o, r) ==
    LET sessionKey == hist[c]
        t == TurnHandler(r)
    IN  /\ sessionKey <= maxHist
        /\ o <= MaxObjs
        /\ conversationStates' = Register(conversationStates, sessionKey, o)
        /\ nobjs' = IF o > nobjs THEN o ELSE nobjs
        /\ heap' = [heap EXCEPT ![o] = t.state]
        /\ hist' = [hist EXCEPT ![c] = sessionKey + g]
        /\ last' = [conv |-> c, key |-> sessionKey, cmd |-> cmd, prompt |-> prompt, obj |-> o,
                    fresh |-> o > nobjs, from |-> heap[o].step,
                    out |-> t.out, outcome |-> t.outcome,
                    probe |-> r.probe, gen |-> r.gen, sent |-> r.sent, models |-> r.models,
                    chunks |-> r.chunks, detected |-> r.detected,
                    cancelled |-> cancelled]
        /\ ghost' = [ghost EXCEPT
                ![o] = [creator |-> IF o > nobjs THEN c ELSE ghost[o].creator,
                        token |-> IF cmd = "integrate"
                                     /\ ToLower(Trim(prompt)) \in
                                            {"posix", "autosar", "motionwise"}
                                  THEN ToLower(Trim(prompt)) ELSE ghost[o].token]]
        /\ UNCHANGED <<inflight, probe>>

\* request.command === 'integrate'
IntegrateTurn(c, maxHist, growth, prompts, workspaces) ==
    \E g \in growth, prompt \in prompts, ws \in workspaces, cancel \in BOOLEAN :
        LET o == StateFor(c)
            r == handleIntegrateCommand(heap[o], prompt, ws)
        IN  /\ Turn(c, maxHist, g, "integrate", prompt, cancel /\ r.probe # "none", o,
                    [r EXCEPT !.detected = IF r.probe = "none" THEN Undefined
                                           ELSE DetectConfig(ws, 1)])
            /\ UNCHANGED simple

\* request.command === 'validate'
ValidateTurn(c, maxHist, growth, workspaces) ==
    \E g \in growth, ws \in workspaces :
        LET o == StateFor(c)
            r == handleValidateCommand(heap[o], ws)
        IN  /\ Turn(c, maxHist, g, "validate", "", FALSE, o, r)
            /\ UNCHANGED simple

\* request.command === 'adapter'
AdapterTurn(c, maxHist, growth, prompts) ==
    \E g \in growth, prompt \in prompts :
        LET o == StateFor(c)
            r == handleAdapterCommand(heap[o], prompt)
        IN  /\ Turn(c, maxHist, g, "adapter", prompt, FALSE, o, r)
            /\ UNCHANGED simple

\* no command: the conversation flow; the reply answers the question asked
FlowTurn(c, maxHist, growth, selections, captures, oracles) ==
    \E g \in growth :
        LET o == StateFor(c)
        IN  \E prompt \in (IF o <= MaxObjs /\ heap[o].step = "config"
                           THEN selections ELSE captures),
               oracle \in oracles :
                LET r == handleConversationFlow(heap[o], prompt, oracle)
                IN  /\ Turn(c, maxHist, g, "", prompt,
                            r.gen.called /\ r.thrown /\ oracle.cancelled, o, r)
                    /\ UNCHANGED simple

----------------------------------------------------------------------------
(* The two extensions side by side: every turn is given to both *)

\* part_000 takes the turn that ended as r on its object o; its store is
\* looked up and registered as the one of extension.ts (part_000 91-96)
TurnSimple(o, r) ==
    simple' = [heap |-> [simple.heap EXCEPT ![o] = TurnHandler(r).state],
               gen |-> r.gen, sent |-> r.sent,
               outcome |-> TurnHandler(r).outcome]

\* request.command === 'integrate', in both extensions
PairIntegrateTurn(c, maxHist, growth, prompts, workspaces) ==
    \E g \in growth, prompt \in prompts, ws \in workspaces, cancel \in BOOLEAN :
        LET o == StateFor(c)
            r == handleIntegrateCommand(heap[o], prompt, ws)
        IN  /\ Turn(c, maxHist, g, "integrate", prompt, cancel /\ r.probe # "none", o,
                    [r EXCEPT !.detected = IF r.probe = "none" THEN Undefined
                                           ELSE DetectConfig(ws, 1)])
            /\ TurnSimple(o, handleIntegrateCommandSimple(simple.heap[o], prompt, ws))

\* request.command === 'validate', in both extensions
PairValidateTurn(c, maxHist, growth, workspaces) ==
    \E g \in growth, ws \in workspaces :
        LET o == StateFor(c)
        IN  /\ Turn(c, maxHist, g, "validate", "", FALSE, o,
                    handleValidateCommand(heap[o], ws))
            /\ TurnSimple(o, handleValidateCommandSimple(simple.heap[o], ws))

\* request.command === 'adapter', in both extensions
PairAdapterTurn(c, maxHist, growth, prompts) ==
    \E g \in growth, prompt \in prompts :
        LET o == StateFor(c)
        IN  /\ Turn(c, maxHist, g, "adapter", prompt, FALSE, o,
                    handleAdapterCommand(heap[o], prompt))
            /\ TurnSimple(o, handleAdapterCommandSimple(simple.heap[o], prompt))

\* no command, in both extensions
PairFlowTurn(c, maxHist, growth, captures, oracles) ==
    \E g \in growth, prompt \in captures, oracle \in oracles :
        LET o == StateFor(c)
            r == handleConversationFlow(heap[o], prompt, oracle)
        IN  /\ Turn(c, maxHist, g, "", prompt,
                    r.gen.called /\ r.thrown /\ oracle.cancelled, o, r)
            /\ TurnSimple(o, handleConversationFlowSimple(simple.heap[o], prompt, oracle))

----------------------------------------------------------------------------
(* Turns that overlap: the callback split at its awaits *)

\* handleIntegrateCommand up to `await analyzeWorkspace()`: the write of the platform
IntegrateBeforeProbe(state, input) ==
    [state EXCEPT !.platform =
        IF input = "posix" \/ input = "autosar" THEN input ELSE "posix"]

\* handleIntegrateCommand from the await on: its writes to the object as the
\* object is when the handler resumes
IntegrateAfterProbe(state, input, analysis) ==
    LET detected == analysis.detectedMotionWiseConfig IN
    IF analysis.threw THEN state
    ELSE IF input = "motionwise"
    THEN IF detected # Undefined /\ detected # "unknown"
         THEN [state EXCEPT !.motionwiseConfig = detected,
                            !.integrationPath = MOTIONWISE_PATHS(detected),
                            !.step = "memory"]
         ELSE [state EXCEPT !.step = "config"]
    ELSE [state EXCEPT !.step = "memory", !.integrationPath = GenericPath]

\* the 'alternative' branch up to `await generateIntegrationCode(...)`
FlowBeforeGenerate(state, userMessage) ==
    [state EXCEPT !.alternativeFunction = userMessage, !.step = "complete"]

\* the 'alternative' branch from the await on
FlowAfterGenerate(state, oracle) ==
    IF generateIntegrationCode(state, oracle).thrown
    THEN state
    ELSE [state EXCEPT !.step = "initial"]

\* a turn as the host delivers it
Delivered(c, o, cmd, prompt, ws, oracle) ==
    [conv |-> c, obj |-> o, cmd |-> cmd, prompt |-> prompt, ws |-> ws, oracle |-> oracle]

\* the state that the turn t leaves when nothing runs between its parts
Apply(state, t) ==
    IF t.cmd = "integrate"
    THEN TurnHandler(handleIntegrateCommand(state, t.prompt, t.ws)).state
    ELSE TurnHandler(handleConversationFlow(state, t.prompt, t.oracle)).state

\* the host delivers t: lookup, registration and the handler up to its first
\* await on the object state, or to its end when it has none (atomic)
Begin(t, maxHist, atomic, written) ==
    LET sessionKey == hist[t.conv]
        o == t.obj
    IN  /\ sessionKey <= maxHist
        /\ o <= MaxObjs
        /\ \A p \in inflight.pending : p.conv # t.conv
        /\ inflight.pending # {} => Len(inflight.log) < 2
        /\ conversationStates' = Register(conversationStates, sessionKey, o)
        /\ nobjs' = IF o > nobjs THEN o ELSE nobjs
        /\ heap' = [heap EXCEPT ![o] = written]
        /\ hist' = IF atomic THEN [hist EXCEPT ![t.conv] = sessionKey + 2] ELSE hist
        /\ inflight' =
              [pending |-> IF atomic THEN inflight.pending ELSE inflight.pending \cup {t},
               base |-> IF inflight.pending = {} THEN heap ELSE inflight.base,
               log |-> IF inflight.pending = {} THEN <<t>> ELSE Append(inflight.log, t)]
        /\ UNCHANGED <<last, ghost, probe, simple>>

\* an integrate turn with a valid token arrives and is suspended in analyzeWorkspace
AsyncIntegrateBegin(c, maxHist, prompts, workspaces) ==
    \E prompt \in prompts, ws \in workspaces :
        LET o == StateFor(c)
            input == ToLower(Trim(prompt))
        IN  /\ input \in {"posix", "autosar", "motionwise"}
            /\ Begin(Delivered(c, o, "integrate", prompt, ws, Oracle(FALSE, "no", <<>>, 0, FALSE)),
                     maxHist, FALSE, IntegrateBeforeProbe(heap[o], input))

\* a free-text turn arrives: suspended in generateIntegrationCode at step
\* 'alternative', run to its end at any other step
AsyncFlowBegin(c, maxHist, selections, captures, oracles) ==
    LET o == StateFor(c)
    IN  \E prompt \in (IF o <= MaxObjs /\ heap[o].step = "config"
                       THEN selections ELSE captures),
           oracle \in oracles :
            LET t == Delivered(c, o, "", prompt, EmptyWorkspace, oracle)
            IN  IF heap[o].step = "alternative"
                THEN Begin(t, maxHist, FALSE, FlowBeforeGenerate(heap[o], Trim(prompt)))
                ELSE Begin(t, maxHist, TRUE, Apply(heap[o], t))

\* a suspended turn resumes and runs to its end
AsyncResume ==
    \E t \in inflight.pending :
        /\ heap' = [heap EXCEPT ![t.obj] =
                IF t.cmd = "integrate"
                THEN IntegrateAfterProbe(heap[t.obj], ToLower(Trim(t.prompt)),
                                         analyzeWorkspace(t.ws))
                ELSE FlowAfterGenerate(heap[t.obj], t.oracle)]
        /\ hist' = [hist EXCEPT ![t.conv] = hist[t.conv] + 2]
        /\ inflight' = [inflight EXCEPT !.pending = inflight.pending \ {t}]
        /\ UNCHANGED <<conversationStates, nobjs, last, ghost, probe, simple>>

----------------------------------------------------------------------------
(* Inputs of the model *)

TokenTexts == {"posix", " AUTOSAR ", "MotionWise", "", "windows"}
SelectionTexts ==
    {"2", "7", " CP-RDB3 ", "unknown", "Constructor", "constructor", "__PROTO__",
     "toString", ""}
CaptureTexts == {"   ", "none", " ShmM_MapOwner "}
AdapterTexts == {"", " MyFn "}

NoLast ==
    [conv |-> 0, key |-> 0, cmd |-> "", prompt |-> "", obj |-> NoObj, fresh |-> FALSE,
     from |-> "initial", out |-> <<>>, outcome |-> "ok", probe |-> "none", gen |-> NoGen,
     sent |-> FALSE, models |-> "none", chunks |-> <<>>, detected |-> Undefined,
     cancelled |-> FALSE]

\* no turn is suspended; base and log are what the object states were and the
\* turns begun since the last moment at which no turn was suspended
NoneInFlight == [pending |-> {}, base |-> <<>>, log |-> <<>>]

\* analyzeWorkspace has not been called
NoProbe == [asked |-> FALSE]

\* part_000: state = { step: 'initial' }
InitialStateSimple ==
    [step |-> "initial", platform |-> Undefined, memoryFunction |-> Undefined,
     datasetFunction |-> Undefined, alternativeFunction |-> Undefined]

\* part_000 has taken no turn: its objects, and the generation, the request to
\* the language model and the outcome of its last turn
NoSimple ==
    [heap |-> [o \in ObjIds |-> InitialStateSimple], gen |-> NoGen, sent |-> FALSE,
     outcome |-> "ok"]

\* activate(): an empty map, no conversation has a turn in its history
Init ==
    /\ conversationStates = [k \in Keys |-> NoObj]
    /\ heap = [o \in ObjIds |-> InitialState]
    /\ nobjs = 0
    /\ hist = [c \in Convs |-> 0]
    /\ last = NoLast
    /\ ghost = [o \in ObjIds |-> [creator |-> 0, token |-> "none"]]
    /\ inflight = NoneInFlight
    /\ probe = NoProbe
    /\ simple = NoSimple

\* One conversation; each exchange adds a request and a response turn to the history.
Next ==
    \E c \in {1} :
        \/ IntegrateTurn(c, 2 * (MaxTurns - 1), {2}, TokenTexts, Workspaces)
        \/ ValidateTurn(c, 2 * (MaxTurns - 1), {2}, Workspaces)
        \/ AdapterTurn(c, 2 * (MaxTurns - 1), {2}, AdapterTexts)
        \/ FlowTurn(c, 2 * (MaxTurns - 1), {2}, SelectionTexts, CaptureTexts, Oracles)

Spec == Init /\ [][Next]_vars

\* Several conversations on the one store, the history growing by 1 or 2 a turn.
NextStore ==
    \E c \in Convs :
        \/ IntegrateTurn(c, MaxHist, Growth, {"posix"}, {EmptyWorkspace})
        \/ ValidateTurn(c, MaxHist, Growth, {EmptyWorkspace})
        \/ AdapterTurn(c, MaxHist, Growth, {" MyFn "})
        \/ FlowTurn(c, MaxHist, Growth, {"2"}, {"none"},
                    {Oracle(FALSE, "no", <<>>, 0, FALSE)})

SpecStore == Init /\ [][NextStore]_vars

\* analyzeWorkspace() called, once, in the workspace ws
Probe(workspaces) ==
    \E ws \in workspaces :
        /\ ~probe.asked
        /\ probe' = [asked |-> TRUE, ws |-> ws,
                     detected |-> DetectConfig(ws, 1),
                     searches |-> ConfigSearches(ws, 1),
                     result |-> analyzeWorkspace(ws)]
        /\ UNCHANGED <<conversationStates, heap, nobjs, hist, last, ghost, inflight, simple>>

\* Workspace analysis alone, over the workspaces of ProbeWorkspaces.
NextProbe == Probe(ProbeWorkspaces)

SpecProbe == Init /\ [][NextProbe]_vars

\* Two conversations on the one store whose turns may overlap at the awaits.
NextAsync ==
    \/ \E c \in Convs :
          \/ AsyncIntegrateBegin(c, MaxHist, {"MotionWise", " AUTOSAR "}, {EmptyWorkspace})
          \/ AsyncFlowBegin(c, MaxHist, {"2"}, {"none"},
                            {Oracle(TRUE, "no", <<"chunk1", "chunk2">>, 0, FALSE)})
    \/ AsyncResume

SpecAsync == Init /\ [][NextAsync]_vars

\* One conversation given to both extensions, no integrate directive with the
\* token motionwise.
PairTokenTexts == TokenTexts \ {"MotionWise"}

NextPair ==
    \E c \in {1} :
        \/ PairIntegrateTurn(c, 2 * (MaxTurns - 1), {2}, PairTokenTexts, Workspaces)
        \/ PairValidateTurn(c, 2 * (MaxTurns - 1), {2}, Workspaces)
        \/ PairAdapterTurn(c, 2 * (MaxTurns - 1), {2}, AdapterTexts)
        \/ PairFlowTurn(c, 2 * (MaxTurns - 1), {2}, CaptureTexts, Oracles)

SpecPair == Init /\ [][NextPair]_vars

----------------------------------------------------------------------------
(* Properties *)

\* the turn just taken was taken by conversation c
TurnOf(c) == hist'[c] # hist[c]

\* the conversations that have taken a turn
Speakers == {c \in Convs : hist[c] > 0}

\* one position forward in initial -> [config] -> memory -> dataset ->
\* alternative -> complete -> initial; the turn that captures the alternative
\* function takes the last two positions at once
OnePositionForward ==
    { <<"initial", "config">>, <<"initial", "memory">>, <<"config", "memory">>,
      <<"memory", "dataset">>, <<"dataset", "alternative">>,
      <<"alternative", "complete">>, <<"complete", "initial">>,
      <<"alternative", "initial">> }

Rejected(l) ==
    \/ l.cmd = "integrate" /\ l.out = <<"specify_platform">>
    \/ l.cmd = "" /\ l.out = <<"invalid_configuration">>

\* C2: a turn whose input is rejected leaves every field of every state object
\* (step, platform, variant, integration path, the three functions) as it was,
\* so repeating it changes nothing either.
C2_RejectedInputKeepsState ==
    [][Rejected(last') => heap' = heap]_vars

\* C2 witness: an invalid selection was rejected at the config step of a session
\* that already holds a platform.
C2_RejectedWitness ==
    /\ Rejected(last)
    /\ last.prompt = "7"
    /\ heap[last.obj].step = "config"
    /\ heap[last.obj].platform = "posix"

\* C3 as claimed: generation is triggered only by a free-text turn, with all
\* four of platform, memoryFn, datasetFn and altFn set and equal to the
\* session's, and that turn ends with step = initial.
C3_GenerationConfigAndReset ==
    last.gen.called
        => /\ last.cmd = ""
           /\ last.gen.platform = heap[last.obj].platform
           /\ last.gen.memory = heap[last.obj].memoryFunction
           /\ last.gen.dataset = heap[last.obj].datasetFunction
           /\ last.gen.alternative = heap[last.obj].alternativeFunction
           /\ Undefined \notin {last.gen.platform, last.gen.memory,
                                last.gen.dataset, last.gen.alternative}
           /\ heap[last.obj].step = "initial"

\* C4 as claimed: whatever the outcome of generation, no turn ends with step =
\* complete, so no later turn starts there.
C4_NoTurnEndsComplete ==
    \A o \in ObjIds : heap[o].step # "complete"

\* C5 as claimed: a turn cancelled or aborted by a fault while suspended in
\* workspace probing or in the oracle call leaves every field of the session as
\* it was before the turn.
C5_AbortedTurnKeepsState ==
    [][(last'.outcome = "caught" \/ last'.cancelled) => heap' = heap]_vars

\* C6: while only one conversation uses the store, each of its turns after the
\* first resolves to the state object of its preceding turn, never a new one,
\* whether the history grew by 1 or by 2.
C6_SoloConversationKeepsObject ==
    [][\A c \in Convs :
          (TurnOf(c) /\ Speakers = {c})
              => (last'.obj = last.obj /\ ~last'.fresh)]_vars

\* C6 witness: a conversation alone on the store, several turns in, the last
\* one having found the state an earlier one advanced.
C6_SoloWitness ==
    /\ Speakers = {1}
    /\ hist[1] >= 4
    /\ ~last.fresh
    /\ heap[last.obj].step = "alternative"

\* C7 as claimed, its last part: the state registered by one turn under K is
\* what the next query, made under K + 1 before any further write, retrieves.
C7_RegisteredUnderKFoundUnderKPlus1 ==
    [][(last.obj # NoObj /\ last'.key = (last.key + 1) + 1)
          => last'.obj = last.obj]_vars

\* C7 amended: the lookup for turn count K returns the entry under K if there is
\* one, else the entry under K - 1 if there is one, else a new state; the
\* returned state is then registered under K + 1; a turn with count 0 always
\* gets a new state; and what one turn registered under K the next query under
\* K + 1 retrieves, provided no entry is registered under K + 1.
C7_LookupOrder ==
    [][\A c \in Convs :
          TurnOf(c) =>
              LET K == hist[c] IN
              /\ last'.key = K
              /\ conversationStates[K] # NoObj => last'.obj = conversationStates[K]
              /\ (conversationStates[K] = NoObj /\ conversationStates[K - 1] # NoObj)
                     => last'.obj = conversationStates[K - 1]
              /\ (conversationStates[K] = NoObj /\ conversationStates[K - 1] = NoObj)
                     => (last'.fresh /\ last'.obj > nobjs /\ nobjs' = last'.obj)
              /\ last'.fresh <=> (conversationStates[K] = NoObj
                                  /\ conversationStates[K - 1] = NoObj)
              /\ conversationStates'[K + 1] = last'.obj
              /\ \A k \in Keys \ {K + 1} :
                     conversationStates'[k] = conversationStates[k]
              /\ K = 0 => last'.fresh
              /\ (last.obj # NoObj /\ K = (last.key + 1) + 1
                      /\ conversationStates[K] = NoObj)
                     => last'.obj = last.obj]_vars

\* C7 witness: with two conversations on the store, a turn found nothing under
\* its own count and took the entry of the count before it.
C7_FallbackWitness ==
    /\ Speakers = Convs
    /\ last.obj # NoObj
    /\ ~last.fresh
    /\ conversationStates[last.key] = NoObj
    /\ conversationStates[last.key - 1] = last.obj

\* the selections the claim accepts: an index 1..6, or a catalog key whatever
\* the case of its letters, after trimming
ValidSelection(prompt) ==
    \/ Trim(prompt) \in {"1", "2", "3", "4", "5", "6"}
    \/ ToLower(Trim(prompt)) \in MotionWiseConfig

\* C8 as claimed: at the config step a text is accepted exactly when it is an
\* index 1..6 or names a catalog key; every other text is answered with the
\* invalid-selection message.
C8_AcceptedIffValidSelection ==
    /\ (last.cmd = "" /\ Len(last.out) > 0 /\ last.out[1] = "configuration")
           => ValidSelection(last.prompt)
    /\ (last.cmd = "" /\ last.out = <<"invalid_configuration">>)
           => ~ValidSelection(last.prompt)

\* C9 as claimed: no failure of a file read leaves the probe; the turn that
\* invoked it always gets a result.
C9_ProbingNeverThrows ==
    last.probe # "threw"

\* C10: no fault leaves the callback: a turn whose handler threw (in probing or
\* in generation) ends caught, with exactly one error line, written last.
C10_NothingEscapes ==
    /\ last.outcome \in {"ok", "caught"}
    /\ last.probe = "threw" => last.outcome = "caught"
    /\ (last.gen.called /\ ~SeqIncludes(last.out, "integration_complete"))
           => last.outcome = "caught"
    /\ last.outcome = "caught"
           => /\ last.out[Len(last.out)] = "error_line"
              /\ Cardinality({i \in 1..Len(last.out) : last.out[i] = "error_line"}) = 1

\* C10 witness: a read failure in probing during an integrate turn was caught.
C10_CaughtWitness ==
    /\ last.cmd = "integrate"
    /\ last.probe = "threw"
    /\ last.outcome = "caught"

----------------------------------------------------------------------------
(* Claims C11 .. C20 *)

\* C11 as claimed: a free-text turn either changes the step, or puts a message
\* on the stream and leaves the state as it was; no free text is consumed with
\* neither a message nor a transition.
C11_FreeTextAnsweredOrMoved ==
    [][last'.cmd = ""
         => \/ heap'[last'.obj].step # last'.from
            \/ (Len(last'.out) > 0 /\ heap' = heap)]_vars

\* a platform token that handleIntegrateCommand accepts
ValidToken(prompt) == ToLower(Trim(prompt)) \in {"posix", "autosar", "motionwise"}

\* C12: the dialogue is never stuck. From any state, a stuck 'complete' and the
\* state a failed probing left included, an integrate turn with a valid token
\* whose probing succeeds ends at 'memory' or 'config' with the questions of
\* that step on the stream; from there every accepted answer moves to the next
\* question and the answer to the last one calls the generation, all in the
\* same store.
C12_NeverStuck ==
    [][/\ (last'.cmd = "integrate" /\ ValidToken(last'.prompt) /\ last'.probe # "threw")
            => /\ last'.probe = "ok"
               /\ heap'[last'.obj].step \in {"memory", "config"}
               /\ last'.outcome = "ok"
               /\ Len(last'.out) > 0
       /\ (last'.cmd = "" /\ last'.from = "config" /\ ValidSelection(last'.prompt))
            => heap'[last'.obj].step = "memory"
       /\ (last'.cmd = "" /\ last'.from = "memory")
            => heap'[last'.obj].step = "dataset"
       /\ (last'.cmd = "" /\ last'.from = "dataset")
            => heap'[last'.obj].step = "alternative"
       /\ (last'.cmd = "" /\ last'.from = "alternative")
            => last'.gen.called]_vars

\* C12 witness: an integrate turn took a dialogue out of the step 'complete'
\* that a failed generation had left.
C12_RecoveredWitness ==
    /\ last.cmd = "integrate"
    /\ last.probe = "ok"
    /\ last.from = "complete"
    /\ heap[last.obj].step \in {"memory", "config"}

\* C13: a validate turn and an adapter turn leave every field of every
\* conversation state as it was, at every step, for every argument and every
\* workspace, a workspace whose probing fails included.
C13_ValidateAndAdapterKeepState ==
    [][last'.cmd \in {"validate", "adapter"}
         => /\ heap' = heap
            /\ heap'[last'.obj] = heap[last'.obj]]_vars

\* C13 witness: a validate turn in the middle of a dialogue, the dataset
\* question still open and the memory answer still held.
C13_MidDialogueWitness ==
    /\ last.cmd = "validate"
    /\ last.from = "dataset"
    /\ heap[last.obj].step = "dataset"
    /\ heap[last.obj].memoryFunction # Undefined

\* the platform that handleIntegrateCommand writes for an accepted token
PlatformOf(prompt) ==
    IF ToLower(Trim(prompt)) \in {"posix", "autosar"} THEN ToLower(Trim(prompt)) ELSE "posix"

\* C14 as claimed: once the platform of a session has a value, no later turn
\* changes it.
C14_PlatformNeverChanges ==
    [][\A o \in ObjIds :
          heap[o].platform # Undefined => heap'[o].platform = heap[o].platform]_vars

\* C14 amended: the platform of a session is written only by an integrate turn
\* on that session with a valid token, to the platform of that token, whether
\* or not it had a value; no other turn changes it and it is never unset.
C14_PlatformWrittenOnlyByIntegrate ==
    [][\A o \in ObjIds :
          heap'[o].platform # heap[o].platform
              => /\ last'.cmd = "integrate"
                 /\ last'.obj = o
                 /\ ValidToken(last'.prompt)
                 /\ heap'[o].platform = PlatformOf(last'.prompt)]_vars

\* C14 witness: an integrate turn with the token autosar on a session that a
\* MotionWise dialogue had given the platform posix and a configuration.
C14_RewrittenWitness ==
    /\ last.cmd = "integrate"
    /\ last.from # "initial"
    /\ heap[last.obj].platform = "autosar"
    /\ heap[last.obj].motionwiseConfig # Undefined

\* C15 as claimed: at the end of a turn whose generation completed, the session
\* holds no memory, dataset or alternative function, no configuration and no
\* integration path, and is back at the first step.
C15_CapturedValuesDiscarded ==
    (last.gen.called /\ last.outcome = "ok")
        => /\ heap[last.obj].step = "initial"
           /\ heap[last.obj].memoryFunction = Undefined
           /\ heap[last.obj].datasetFunction = Undefined
           /\ heap[last.obj].alternativeFunction = Undefined
           /\ heap[last.obj].motionwiseConfig = Undefined
           /\ heap[last.obj].integrationPath = Undefined

\* C16 as claimed, for a session on which no generation has yet been
\* triggered (no alternative function was ever captured): a memory or dataset
\* function that is set is not changed by any turn.
C16_SetFieldKeptUntilGeneration ==
    [][\A o \in ObjIds :
          heap[o].alternativeFunction = Undefined
              => /\ heap[o].memoryFunction # Undefined
                     => heap'[o].memoryFunction = heap[o].memoryFunction
                 /\ heap[o].datasetFunction # Undefined
                     => heap'[o].datasetFunction = heap[o].datasetFunction]_vars

\* C16 amended: each function field is written only by the free-text turn that
\* starts at the field's own step, to the trimmed text of that turn; after an
\* integrate turn has put the step back, that turn writes the field again, with
\* or without a generation in between. No other turn changes the field.
C16_FieldWrittenOnlyAtItsStep ==
    [][\A o \in ObjIds :
          /\ heap'[o].memoryFunction # heap[o].memoryFunction
                => /\ last'.cmd = "" /\ last'.obj = o /\ last'.from = "memory"
                   /\ heap'[o].memoryFunction = Trim(last'.prompt)
          /\ heap'[o].datasetFunction # heap[o].datasetFunction
                => /\ last'.cmd = "" /\ last'.obj = o /\ last'.from = "dataset"
                   /\ heap'[o].datasetFunction = Trim(last'.prompt)
          /\ heap'[o].alternativeFunction # heap[o].alternativeFunction
                => /\ last'.cmd = "" /\ last'.obj = o /\ last'.from = "alternative"
                   /\ heap'[o].alternativeFunction = Trim(last'.prompt)]_vars

\* C16 witness: the memory question answered a second time, after an integrate
\* turn restarted a dialogue that had its dataset function but no generation.
C16_RecapturedWitness ==
    /\ last.cmd = ""
    /\ last.from = "memory"
    /\ heap[last.obj].memoryFunction = "ShmM_MapOwner"
    /\ heap[last.obj].datasetFunction # Undefined
    /\ heap[last.obj].alternativeFunction = Undefined

IsPathString(p) == p \notin {Undefined, "", FnObject, ObjectPrototype, FnToString}

\* the most recent turn looked a configuration up in the catalog and took it
Resolved(l) ==
    \/ l.cmd = "" /\ l.from = "config" /\ Len(l.out) = 3
    \/ l.cmd = "integrate" /\ Len(l.out) > 2 /\ l.out[3] = "detected_configuration"

\* C19: the catalog yields a non-empty path string for each of the seven
\* identifiers of the closed set, the templated placeholder path for both
\* generic and unknown; a turn that takes a configuration of the set leaves
\* that path in the session.
C19_CatalogTotal ==
    /\ \A id \in MotionWiseConfig : IsPathString(MOTIONWISE_PATHS(id))
    /\ MOTIONWISE_PATHS("generic") = GenericPath
    /\ MOTIONWISE_PATHS("unknown") = GenericPath
    /\ (Resolved(last) /\ heap[last.obj].motionwiseConfig \in MotionWiseConfig)
          => /\ heap[last.obj].integrationPath
                    = MOTIONWISE_PATHS(heap[last.obj].motionwiseConfig)
             /\ IsPathString(heap[last.obj].integrationPath)

\* C19 witness: the selection "unknown" was taken and resolved to the
\* placeholder path.
C19_UnknownResolvedWitness ==
    /\ Resolved(last)
    /\ last.prompt = "unknown"
    /\ heap[last.obj].motionwiseConfig = "unknown"
    /\ heap[last.obj].integrationPath = GenericPath

\* C20: when selectChatModels returns no model, the alternative turn puts the
\* warning and then the summary of the captured configuration on the stream,
\* sends no request, ends without an error and leaves the step at 'initial';
\* the summary is built from the platform and the three functions of the
\* session, all of them set.
C20_UnavailableOracleSummary ==
    last.models = "empty"
        => /\ last.out = <<"alternative_echo", "generating", "lm_not_available",
                           "config_summary", "integration_complete">>
           /\ ~last.sent
           /\ last.outcome = "ok"
           /\ heap[last.obj].step = "initial"
           /\ last.gen.called
           /\ last.gen.platform = heap[last.obj].platform
           /\ last.gen.memory = heap[last.obj].memoryFunction
           /\ last.gen.dataset = heap[last.obj].datasetFunction
           /\ last.gen.alternative = heap[last.obj].alternativeFunction
           /\ Undefined \notin {last.gen.platform, last.gen.memory, last.gen.dataset,
                                last.gen.alternative}

\* C20 witness: an alternative turn met no language model.
C20_UnavailableWitness ==
    /\ last.cmd = ""
    /\ last.from = "alternative"
    /\ last.models = "empty"
    /\ heap[last.obj].step = "initial"

----------------------------------------------------------------------------
(* Claims C21 .. C30 *)

\* q is the sequence p followed by something
IsPrefix(p, q) == Len(p) <= Len(q) /\ SubSeq(q, 1, Len(p)) = p

\* C21: in a turn whose request went to the language model, what the stream
\* holds after the announcement of the generation is the chunks of the
\* response, each once, unchanged and in their order, followed by the
\* completion message; when the request or the response fails, it is the
\* chunks received up to the failure followed by the error line, and no
\* completion message.
C21_ChunksVerbatimInOrder ==
    last.sent
        => /\ IsPrefix(<<"alternative_echo", "generating">>, last.out)
           /\ LET rest == SubSeq(last.out, 3, Len(last.out))
              IN  IF last.outcome = "ok"
                  THEN rest = last.chunks \o <<"integration_complete">>
                  ELSE /\ Len(rest) > 0
                       /\ rest[Len(rest)] = "error_line"
                       /\ IsPrefix(SubSeq(rest, 1, Len(rest) - 1), last.chunks)
                       /\ \A i \in 1..Len(rest) : rest[i] # "integration_complete"

\* C21 witness: a response of three chunks, one of them twice, went through to
\* the completion message.
C21_ThreeChunksWitness ==
    /\ last.sent
    /\ last.outcome = "ok"
    /\ last.chunks = <<"chunk2", "chunk1", "chunk2">>
    /\ last.out[Len(last.out)] = "integration_complete"

\* C22 as claimed: an integrate turn at step 'initial' whose token is posix or
\* autosar (after trim and toLowerCase) leaves that platform, the generic
\* integration path and step 'memory' in the session, and the Step 1/3 memory
\* question on the stream.
C22_DirectIntegrateFromInitial ==
    (last.cmd = "integrate" /\ last.from = "initial"
         /\ ToLower(Trim(last.prompt)) \in {"posix", "autosar"})
        => /\ heap[last.obj].platform = ToLower(Trim(last.prompt))
           /\ heap[last.obj].integrationPath = GenericPath
           /\ heap[last.obj].step = "memory"
           /\ SeqIncludes(last.out, "step1_memory_allocation")

\* the turns of the log q that worked on object o, in the order they began
OnObject(q, o) == LET Same(t) == t.obj = o IN SelectSeq(q, Same)

\* C23 as claimed: whenever no turn is suspended, the state of every object is
\* the one that the turns begun since the last such moment leave when run one
\* after the other in some order, each from its lookup to its end.
C23_OverlappingTurnsSerializable ==
    (inflight.pending = {} /\ inflight.log # <<>>)
        => \A o \in ObjIds :
              LET ts == OnObject(inflight.log, o)
                  b == inflight.base[o]
              IN  /\ Len(ts) = 0 => heap[o] = b
                  /\ Len(ts) = 1 => heap[o] = Apply(b, ts[1])
                  /\ Len(ts) = 2 => heap[o] \in {Apply(Apply(b, ts[1]), ts[2]),
                                                Apply(Apply(b, ts[2]), ts[1])}

\* C24: conversations on the one store take over each other's state. A turn
\* works on an object that another conversation created whenever that object
\* is what the store holds under the turn's history length or the one before;
\* the handler then treats it as its own, so that an answer given in one
\* conversation is written to the other's state and moves the other's dialogue.
C24_ForeignObjectOnCollision ==
    [][ghost'[last'.obj].creator # last'.conv
         => /\ ~last'.fresh
            /\ last'.obj = Lookup(conversationStates, last'.key)
            /\ last'.obj \in {conversationStates[last'.key],
                              conversationStates[last'.key - 1]}
            /\ (last'.cmd = "" /\ last'.from = "memory")
                  => /\ heap'[last'.obj].memoryFunction = Trim(last'.prompt)
                     /\ heap'[last'.obj].step = "dataset"
            /\ (last'.cmd = "" /\ last'.from = "dataset")
                  => /\ heap'[last'.obj].datasetFunction = Trim(last'.prompt)
                     /\ heap'[last'.obj].step = "alternative"]_vars

\* C24 witness: conversation 2 answered the memory question of the dialogue
\* that conversation 1 had started, on the object conversation 1 created.
C24_CorruptedWitness ==
    /\ last.conv = 2
    /\ ghost[last.obj].creator = 1
    /\ last.cmd = ""
    /\ last.from = "memory"
    /\ heap[last.obj].step = "dataset"

\* C25 as claimed: a session whose last integrate turn with a valid token had
\* the token posix or autosar holds no configuration; and a session at step
\* 'memory' or later that holds a configuration holds the catalog path of that
\* configuration.
C25_ConfigOnlyFromMotionWise ==
    \A o \in ObjIds :
        /\ ghost[o].token \in {"posix", "autosar"}
              => heap[o].motionwiseConfig = Undefined
        /\ (heap[o].step \in {"memory", "dataset", "alternative", "complete"}
                /\ heap[o].motionwiseConfig # Undefined)
              => heap[o].integrationPath = MOTIONWISE_PATHS(heap[o].motionwiseConfig)

\* the entries of configPatterns that find a file in ws
Matching(ws) ==
    {i \in 1..Len(configPatterns) : Len(ws.byPattern[configPatterns[i].pattern]) > 0}

\* C26: the configuration detected is that of the earliest pattern, in the
\* order cp-rdb2, cp-rdb3, sv62, s324sdv, ch63_2, that finds a file; the
\* patterns after it are not searched; nothing is detected exactly when no
\* pattern finds a file; generic and unknown are never detected.
C26_FirstMatchWins ==
    probe.asked
        => LET hits == Matching(probe.ws)
               order == <<"cp-rdb2", "cp-rdb3", "sv62", "s324sdv", "ch63_2">>
           IN  /\ hits = {} <=> probe.detected = Undefined
               /\ hits = {} => probe.searches = Len(order)
               /\ hits # {}
                    => LET first == CHOOSE i \in hits : \A j \in hits : i <= j
                       IN  /\ probe.detected = order[first]
                           /\ probe.searches = first
               /\ probe.detected \notin {"generic", "unknown"}
               /\ ~probe.result.threw
                    => probe.result.detectedMotionWiseConfig = probe.detected

\* C26 witness: the directories of sv62 and of ch63_2 are both there and
\* sv62, the earlier of the two, is detected after three searches.
C26_EarlierOfTwoWitness ==
    /\ probe.asked
    /\ Matching(probe.ws) = {3, 5}
    /\ probe.detected = "sv62"
    /\ probe.searches = 3

\* the name occurs in the list q at most once
AtMostOnce(q, name) == Cardinality({i \in 1..Len(q) : q[i] = name}) <= 1

\* C27 as claimed: for every workspace the scan returns its two lists; each
\* holds a name at most once, and holds it exactly when one of the header
\* files scanned, the first 50 of the at most 100 found, contains the marker.
C27_BoundedDeduplicatedScan ==
    probe.asked
        => LET r == probe.result
               scanned == ScannedHeaders(probe.ws)
           IN  /\ ~r.threw
               /\ Len(scanned) <= HeaderScanMax
               /\ AtMostOnce(r.memoryFunctions, "ShmM_MapOwner")
               /\ AtMostOnce(r.datasetFunctions, "Per_DS_ReadDSElementDMIU")
               /\ SeqIncludes(r.memoryFunctions, "ShmM_MapOwner")
                    <=> \E i \in 1..Len(scanned) : Includes(scanned[i].text, "ShmM_MapOwner")
               /\ SeqIncludes(r.datasetFunctions, "Per_DS_ReadDSElementDMIU")
                    <=> \E i \in 1..Len(scanned) : Includes(scanned[i].text, "Per_DS_Read")

\* C28 as claimed: an integrate turn with the token motionwise ends at step
\* 'config' exactly when the workspace lets no configuration be detected, and
\* then writes neither the configuration nor the integration path; when one is
\* detected, the turn records it with its catalog path and ends at step
\* 'memory' with the Step 1/3 question and without the question for a selection.
C28_MotionWiseIntegrate ==
    [][(last'.cmd = "integrate" /\ ToLower(Trim(last'.prompt)) = "motionwise")
         => LET o == last'.obj IN
            /\ heap'[o].step = "config" <=> last'.detected = Undefined
            /\ last'.detected = Undefined
                 => /\ heap'[o].motionwiseConfig = heap[o].motionwiseConfig
                    /\ heap'[o].integrationPath = heap[o].integrationPath
            /\ last'.detected # Undefined
                 => /\ heap'[o].motionwiseConfig = last'.detected
                    /\ heap'[o].integrationPath = MOTIONWISE_PATHS(last'.detected)
                    /\ heap'[o].step = "memory"
                    /\ SeqIncludes(last'.out, "step1_memory_allocation")
                    /\ ~SeqIncludes(last'.out, "which_configuration")]_vars

\* C29: the platform of a session is the one of the token of its last
\* integrate turn with a valid token, posix for the token motionwise, whatever
\* the workspace holds and whether or not its analysis returns; the platform
\* that the analysis detects is never written to the session. So every
\* generation of a session whose last such token is motionwise is asked for
\* posix, main.c included.
C29_MotionWiseIsPosix ==
    /\ \A o \in ObjIds :
          heap[o].platform =
              CASE ghost[o].token = "none" -> Undefined
                [] ghost[o].token = "autosar" -> "autosar"
                [] OTHER -> "posix"
    /\ (last.gen.called /\ ghost[last.obj].token = "motionwise")
          => /\ last.gen.platform = "posix"
             /\ last.gen.mainC

\* C29 witness: the generation of a session that took the token motionwise in
\* a workspace where cp-rdb3 was detected.
C29_MotionWiseGenerationWitness ==
    /\ last.gen.called
    /\ ghost[last.obj].token = "motionwise"
    /\ heap[last.obj].motionwiseConfig = "cp-rdb3"
    /\ last.gen.platform = "posix"

\* the state of part_000 and the state of extension.ts agree on the fields
\* that both have
SameShared(a, b) ==
    /\ a.step = b.step
    /\ a.platform = b.platform
    /\ a.memoryFunction = b.memoryFunction
    /\ a.datasetFunction = b.datasetFunction
    /\ a.alternativeFunction = b.alternativeFunction

\* C30: given the same turns, none of them an integrate directive with the
\* token motionwise, the two extensions hold the same step, platform and
\* function names after every turn, call the generation in the same turns
\* with the same configuration, and end the turn in the same way, also in
\* the turns in which the workspace analysis or the language model fails.
C30_VariantsAgree ==
    /\ \A o \in ObjIds : SameShared(simple.heap[o], heap[o])
    /\ simple.gen = last.gen
    /\ simple.sent = last.sent
    /\ simple.outcome = last.outcome

====
